---- MODULE Spec2Model ----
(***************************************************************************)
(* midas-cache: HTTP response cache middleware (src/src/index.ts).         *)
(*                                                                         *)
(* One middleware instance (one store, one set of options) serves          *)
(* concurrent requests.  A step is the code a request runs between two     *)
(* suspensions on the handler or on db.put.  The callers, the origin       *)
(* handler, the clock (Date.now()) and the store's faults are the          *)
(* environment.                                                            *)
(***************************************************************************)
EXTENDS Integers, Sequences, FiniteSets, TLC

(***************************************************************************)
(* Bounds of the model.                                                    *)
(***************************************************************************)
MaxReq      == 2      \* request slots that can be in flight together
MaxRequests == 2      \* requests issued in one behaviour of Spec
MaxSeqRequests == 1   \* requests issued in one behaviour of SpecSeq
MaxTicks    == 2      \* clock advances in one behaviour
TickMs      == 1000   \* milliseconds per clock advance
LapseTicks  == 100    \* clock advances skipped by one long quiet period

(***************************************************************************)
(* Program constants.                                                      *)
(***************************************************************************)
DEFAULT_MAX_AGE == 3600
DEFAULT_STALE_WHILE_REVALIDATE == 300
DEFAULT_CACHEABLE_STATUS_CODES == <<200, 301, 302, 307, 308>>
MsPerSecond == 1000

(***************************************************************************)
(* JavaScript values that the code tests for truthiness.                   *)
(***************************************************************************)
Null      == [t |-> "null", v |-> 0]
Undefined == [t |-> "undefined", v |-> 0]
NaN       == [t |-> "NaN", v |-> 0]
Num(n)    == [t |-> "number", v |-> n]
Str(s)    == [t |-> "string", v |-> s]

\* ToBoolean on a number | null value: null, 0 and NaN are falsy.
Truthy(x) == x.t = "number" /\ x.v # 0

Range(s) == {s[i] : i \in DOMAIN s}

(***************************************************************************)
(* Requests.                                                               *)
(***************************************************************************)
Reqs    == 1..MaxReq
Methods == {"GET", "HEAD", "POST"}
Urls    == {"/x"}

\* `${request.method}:${request.url}`
CacheKey(method, url) == <<method, url>>
Keys == {CacheKey(m, u) : m \in Methods, u \in Urls}

\* An isCacheableRequest that lets every method through to the cache.
isCacheableRequest_Any(method) == TRUE

isCacheableRequest(method) == method = "GET" \/ method = "HEAD"

(***************************************************************************)
(* Response headers the code consumes.  A Cache-Control value is a list    *)
(* of directives, each a name and the digits after its "=", if any.        *)
(* An Expires value is a date string.                                      *)
(***************************************************************************)
Dir(name, digits) == [name |-> name, digits |-> digits]

EpochDate   == "Thu, 01 Jan 1970 00:00:00 GMT"
FutureDate  == "Thu, 01 Jan 1970 00:00:03 GMT"
InvalidDate == "never"

\* new Date(s).getTime()
DateGetTime(s) ==
  CASE s = EpochDate  -> Num(0)
    [] s = FutureDate -> Num(3000)
    [] OTHER          -> NaN

RECURSIVE parseInt(_)
\* parseInt(digits, 10)
parseInt(digits) ==
  IF digits = <<>> THEN 0
  ELSE 10 * parseInt(SubSeq(digits, 1, Len(digits) - 1)) + digits[Len(digits)]

\* cacheControl.match(/max-age=(\d+)/): the first max-age with a digit.
parseMaxAge(cacheControl) ==
  LET hits == {i \in DOMAIN cacheControl :
                 /\ cacheControl[i].name = "max-age"
                 /\ cacheControl[i].digits # <<>>}
  IN  IF hits = {} THEN Null
      ELSE LET first == CHOOSE i \in hits : \A j \in hits : i <= j
           IN  Num(parseInt(cacheControl[first].digits))

NoHeaders == <<>>

\* What the handler can answer: <<status, headers>>.
CoreResponses ==
  { <<200, NoHeaders>>,
    <<404, NoHeaders>> }

AllResponses ==
  CoreResponses \cup
  { <<301, NoHeaders>>,
    <<200, "cache-control" :> <<Dir("max-age", <<0>>)>> >>,
    <<200, "cache-control" :> <<Dir("public", <<>>), Dir("max-age", <<2>>)>> >>,
    <<200, "cache-control" :> <<Dir("no-cache", <<>>)>> >>,
    <<200, "cache-control" :> <<Dir("max-age", <<>>)>> >>,
    <<200, "expires" :> EpochDate>>,
    <<200, "expires" :> FutureDate>>,
    <<200, "expires" :> InvalidDate>>,
    <<200, ("cache-control" :> <<Dir("no-cache", <<>>)>>)
             @@ ("expires" :> FutureDate)>>,
    <<200, ("cache-control" :> <<Dir("max-age", <<1>>)>>)
             @@ ("expires" :> FutureDate)>> }

StatusText(status) ==
  CASE status = 200 -> "OK"
    [] status = 301 -> "Moved Permanently"
    [] OTHER        -> "Not Found"

\* response.headers.get(name): null when the header is absent.
HeaderPresent(headers, name) == name \in DOMAIN headers

NoResponse == [status |-> 0, statusText |-> "", headers |-> NoHeaders, body |-> 0]

\* addCacheStatusHeader(response, status)
addCacheStatusHeader(response, status) ==
  [response EXCEPT !.headers =
     ("cache-status" :>
        (IF status = "hit" THEN "\"http-cache-middleware\"; hit"
                           ELSE "\"http-cache-middleware\"; hit=0")) @@ @]

\* toCachedResponse(response)
toCachedResponse(response) ==
  [headers    |-> response.headers,
   status     |-> response.status,
   statusText |-> response.statusText,
   body       |-> response.body]

\* A fromCachedResponse that loses the stored body.
fromCachedResponse_NoBody(serializedResponse) ==
  [body       |-> -1,
   headers    |-> serializedResponse.headers,
   status     |-> serializedResponse.status,
   statusText |-> serializedResponse.statusText]

\* fromCachedResponse(serializedResponse)
fromCachedResponse(serializedResponse) ==
  [body       |-> serializedResponse.body,
   headers    |-> serializedResponse.headers,
   status     |-> serializedResponse.status,
   statusText |-> serializedResponse.statusText]

(***************************************************************************)
(* Options and their defaults (createCacheMiddleware).  An option that is  *)
(* not given is absent from the record's domain.                           *)
(***************************************************************************)
CoreOptions ==
  { ("maxAge" :> 1) @@ ("staleWhileRevalidate" :> 1) }

AllOptions ==
  CoreOptions \cup
  { ("maxAge" :> 1) @@ ("staleWhileRevalidate" :> 0),
    "maxAge" :> 1,
    ("maxAge" :> 1) @@ ("staleWhileRevalidate" :> 1)
       @@ ("cacheableStatusCodes" :> <<200>>),
    ("maxAge" :> 2) @@ ("staleWhileRevalidate" :> 1),
    "staleWhileRevalidate" :> 1 }

OptMaxAge(options) ==
  IF "maxAge" \in DOMAIN options THEN options["maxAge"] ELSE DEFAULT_MAX_AGE

OptStaleWhileRevalidate(options) ==
  IF "staleWhileRevalidate" \in DOMAIN options
  THEN options["staleWhileRevalidate"] ELSE DEFAULT_STALE_WHILE_REVALIDATE

OptCacheableStatusCodes(options) ==
  IF "cacheableStatusCodes" \in DOMAIN options
  THEN options["cacheableStatusCodes"] ELSE DEFAULT_CACHEABLE_STATUS_CODES

(***************************************************************************)
(* Freshness (isFresh, isWithinStaleWhileRevalidate); dateNow is the       *)
(* value of Date.now() at the call.                                        *)
(***************************************************************************)
isFresh(entry, maxAge, dateNow) ==
  IF Truthy(entry.expires)
  THEN entry.expires.v > dateNow
  ELSE dateNow - entry.timestamp < maxAge * MsPerSecond

\* An isWithinStaleWhileRevalidate whose window includes its end.
isWithinSWR_Inclusive(entry, maxAge, staleWhileRevalidate, dateNow) ==
  LET age == dateNow - entry.timestamp
  IN  age <= (maxAge + staleWhileRevalidate) * MsPerSecond

isWithinStaleWhileRevalidate(entry, maxAge, staleWhileRevalidate, dateNow) ==
  LET age == dateNow - entry.timestamp
  IN  age < (maxAge + staleWhileRevalidate) * MsPerSecond

\* An isCacheableResponse that accepts no status.
isCacheableResponse_Never(response, cacheableStatusCodes) == FALSE

\* An isCacheableResponse that accepts every status.
isCacheableResponse_Always(response, cacheableStatusCodes) == TRUE

isCacheableResponse(response, cacheableStatusCodes) ==
  response.status \in Range(cacheableStatusCodes)

\* A cacheResponse in which an Expires header wins over max-age.
NewEntry_ExpiresWins(response, dateNow) ==
  LET h == response.headers
      fromExpires ==
        IF HeaderPresent(h, "expires") /\ h["expires"] # ""
        THEN DateGetTime(h["expires"]) ELSE Null
      maxAgeHdr ==
        IF HeaderPresent(h, "cache-control") /\ h["cache-control"] # <<>>
        THEN parseMaxAge(h["cache-control"]) ELSE Null
  IN  [response     |-> toCachedResponse(response),
       timestamp    |-> dateNow,
       expires      |-> IF fromExpires # Null THEN fromExpires
                        ELSE IF maxAgeHdr # Null
                        THEN Num(dateNow + maxAgeHdr.v * MsPerSecond)
                        ELSE Null,
       lastModified |-> IF HeaderPresent(h, "last-modified")
                        THEN Str(h["last-modified"]) ELSE Null,
       etag         |-> IF HeaderPresent(h, "etag")
                        THEN Str(h["etag"]) ELSE Null]

\* The entry cacheResponse builds from a response at time dateNow.
NewEntry(response, dateNow) ==
  LET h == response.headers
      fromExpires ==
        IF HeaderPresent(h, "expires") /\ h["expires"] # ""
        THEN DateGetTime(h["expires"]) ELSE Null
      maxAgeHdr ==
        IF HeaderPresent(h, "cache-control") /\ h["cache-control"] # <<>>
        THEN parseMaxAge(h["cache-control"]) ELSE Null
  IN  [response     |-> toCachedResponse(response),
       timestamp    |-> dateNow,
       expires      |-> IF maxAgeHdr # Null
                        THEN Num(dateNow + maxAgeHdr.v * MsPerSecond)
                        ELSE fromExpires,
       lastModified |-> IF HeaderPresent(h, "last-modified")
                        THEN Str(h["last-modified"]) ELSE Null,
       etag         |-> IF HeaderPresent(h, "etag")
                        THEN Str(h["etag"]) ELSE Null]

(***************************************************************************)
(* State.                                                                  *)
(***************************************************************************)
VARIABLES
  clients,   \* how many requests the callers keep in flight at once
  budget,    \* how many requests the callers issue
  origin,    \* what the handler can answer
  options,   \* the options createCacheMiddleware was called with
  now,       \* Date.now()
  db,        \* the store: key -> CacheEntry or Undefined
  issued,    \* requests issued so far
  req,       \* per request slot: the middleware invocation
  bg         \* per request slot: its updateCacheInBackground invocation

vars == <<clients, budget, origin, options, now, db, issued, req, bg>>

maxAge               == OptMaxAge(options)
staleWhileRevalidate == OptStaleWhileRevalidate(options)
cacheableStatusCodes == OptCacheableStatusCodes(options)

IdleReq ==
  [pc |-> "idle", id |-> 0, method |-> "", url |-> "", status |-> "",
   response |-> NoResponse, entry |-> Undefined, error |-> "",
   handled |-> 0, reads |-> 0, writes |-> 0]

IdleBg ==
  [pc |-> "none", response |-> NoResponse, entry |-> Undefined,
   error |-> "", handled |-> 0, writes |-> 0]

\* A response the handler can produce.  A request invokes the handler at
\* most once, and the body the handler answers is unique to the request.
HandlerResponse(status, headers, id) ==
  [status |-> status, statusText |-> StatusText(status),
   headers |-> headers, body |-> id]

\* The store is persistent: at construction it is empty or holds, for
\* GET /x, an entry written earlier from a cacheable response (body 0).
Earlier(response, codes, dateNow) ==
  LET r == HandlerResponse(response[1], response[2], 0)
  IN  IF isCacheableResponse(r, codes) THEN NewEntry(r, dateNow)
      ELSE Undefined

Start ==
  /\ now = TickMs
  /\ \E e \in {Undefined} \cup
             {Earlier(response, cacheableStatusCodes, now) :
                response \in origin} :
       db = [k \in Keys |-> IF k = CacheKey("GET", "/x") THEN e ELSE Undefined]
  /\ issued = 0
  /\ req = [r \in Reqs |-> IdleReq]
  /\ bg = [r \in Reqs |-> IdleBg]

\* Concurrent callers.
Init ==
  /\ clients = MaxReq
  /\ budget = MaxRequests
  /\ origin = CoreResponses
  /\ options \in CoreOptions
  /\ Start

\* One caller at a time, every kind of response and of options.
InitSeq ==
  /\ clients = 1
  /\ budget = MaxSeqRequests
  /\ origin = AllResponses
  /\ options \in AllOptions
  /\ Start

cacheKey(r) == CacheKey(req[r].method, req[r].url)

\* Slots are interchangeable: a request takes the first slot never used,
\* or else the first free one.
Free(r) ==
  /\ req[r].pc \in {"idle", "done", "failed"}
  /\ bg[r].pc \in {"none", "done"}

Unused(r) == req[r].pc = "idle"

Available(r) ==
  /\ r <= clients
  /\ Free(r)
  /\ IF \E q \in 1..clients : Unused(q)
     THEN Unused(r) /\ \A q \in 1..(r - 1) : ~Unused(q)
     ELSE \A q \in 1..(r - 1) : ~Free(q)

(***************************************************************************)
(* The middleware (createCacheMiddleware, lines 59-100).  A step runs from *)
(* one suspension of the async function on something outside the           *)
(* middleware (the handler, db.put) to the next: db.get is synchronous and *)
(* the awaits of lines 69 and 72 resume in the same turn of the event      *)
(* loop, so a request is read and classified in the step in which it       *)
(* arrives.  A db.put becomes visible when its promise settles.            *)
(***************************************************************************)

\* A request arrives in slot r.
Arrive(r) ==
  /\ Available(r)
  /\ issued < budget
  /\ issued' = issued + 1

NewReq(method, url) ==
  [IdleReq EXCEPT !.id = issued + 1, !.method = method, !.url = url]

\* Lines 63-67: a request that is not GET or HEAD goes to the handler.
Bypass(r, method, url) ==
  /\ Arrive(r)
  /\ ~isCacheableRequest(method)
  /\ req' = [req EXCEPT ![r] =
       [NewReq(method, url) EXCEPT !.pc = "bypass", !.handled = 1]]
  /\ bg' = [bg EXCEPT ![r] = IdleBg]
  /\ UNCHANGED <<clients, budget, origin, options, now, db>>

\* Line 66, return handle(request): the handler resolves.
BypassResolve(r, status, headers) ==
  /\ req[r].pc = "bypass"
  /\ <<status, headers>> \in origin
  /\ req' = [req EXCEPT ![r].pc = "done", ![r].status = "bypass",
               ![r].response = HandlerResponse(status, headers, req[r].id)]
  /\ UNCHANGED <<clients, budget, origin, options, now, db, issued, bg>>

\* Line 66, return handle(request): the handler throws or rejects.
BypassReject(r) ==
  /\ req[r].pc = "bypass"
  /\ req' = [req EXCEPT ![r].pc = "failed", ![r].error = "handler"]
  /\ UNCHANGED <<clients, budget, origin, options, now, db, issued, bg>>

\* Line 69, getCachedResponse: db.get(key) throws (unreadable or corrupt
\* record); nothing catches it.
GetCachedResponseFault(r, method, url) ==
  /\ Arrive(r)
  /\ isCacheableRequest(method)
  /\ req' = [req EXCEPT ![r] =
       [NewReq(method, url) EXCEPT !.pc = "failed", !.reads = 1,
          !.error = "read"]]
  /\ bg' = [bg EXCEPT ![r] = IdleBg]
  /\ UNCHANGED <<clients, budget, origin, options, now, db>>

\* Lines 69-75: the entry is fresh.
ServeHit(r, method, url) ==
  LET cachedEntry == db[CacheKey(method, url)] IN
  /\ Arrive(r)
  /\ isCacheableRequest(method)
  /\ cachedEntry # Undefined
  /\ isFresh(cachedEntry, maxAge, now)
  /\ req' = [req EXCEPT ![r] =
       [NewReq(method, url) EXCEPT !.pc = "done", !.reads = 1,
          !.status = "hit",
          !.response = addCacheStatusHeader(
              fromCachedResponse(cachedEntry.response), "hit")]]
  /\ bg' = [bg EXCEPT ![r] = IdleBg]
  /\ UNCHANGED <<clients, budget, origin, options, now, db>>

\* A stale path that holds its response until the refresh has ended.
ServeStale_Awaits(r, method, url) ==
  LET cachedEntry == db[CacheKey(method, url)] IN
  /\ Arrive(r)
  /\ isCacheableRequest(method)
  /\ cachedEntry # Undefined
  /\ ~isFresh(cachedEntry, maxAge, now)
  /\ staleWhileRevalidate > 0
  /\ isWithinStaleWhileRevalidate(cachedEntry, maxAge, staleWhileRevalidate,
                                  now)
  /\ req' = [req EXCEPT ![r] =
       [NewReq(method, url) EXCEPT !.pc = "handle", !.reads = 1,
          !.status = "stale"]]
  /\ bg' = [bg EXCEPT ![r] = [IdleBg EXCEPT !.pc = "handle", !.handled = 1]]
  /\ UNCHANGED <<clients, budget, origin, options, now, db>>

\* A stale path that does not test staleWhileRevalidate > 0.
ServeStale_NoGuard(r, method, url) ==
  LET cachedEntry == db[CacheKey(method, url)] IN
  /\ Arrive(r)
  /\ isCacheableRequest(method)
  /\ cachedEntry # Undefined
  /\ ~isFresh(cachedEntry, maxAge, now)
  /\ isWithinStaleWhileRevalidate(cachedEntry, maxAge, staleWhileRevalidate,
                                  now)
  /\ req' = [req EXCEPT ![r] =
       [NewReq(method, url) EXCEPT !.pc = "done", !.reads = 1,
          !.status = "stale",
          !.response = addCacheStatusHeader(
              fromCachedResponse(cachedEntry.response), "stale")]]
  /\ bg' = [bg EXCEPT ![r] = [IdleBg EXCEPT !.pc = "handle", !.handled = 1]]
  /\ UNCHANGED <<clients, budget, origin, options, now, db>>

\* Lines 69-90: the entry is stale and within the revalidation window;
\* updateCacheInBackground is called (it invokes the handler) and the stored
\* response is returned.
ServeStale(r, method, url) ==
  LET cachedEntry == db[CacheKey(method, url)] IN
  /\ Arrive(r)
  /\ isCacheableRequest(method)
  /\ cachedEntry # Undefined
  /\ ~isFresh(cachedEntry, maxAge, now)
  /\ staleWhileRevalidate > 0
  /\ isWithinStaleWhileRevalidate(cachedEntry, maxAge, staleWhileRevalidate,
                                  now)
  /\ req' = [req EXCEPT ![r] =
       [NewReq(method, url) EXCEPT !.pc = "done", !.reads = 1,
          !.status = "stale",
          !.response = addCacheStatusHeader(
              fromCachedResponse(cachedEntry.response), "stale")]]
  /\ bg' = [bg EXCEPT ![r] = [IdleBg EXCEPT !.pc = "handle", !.handled = 1]]
  /\ UNCHANGED <<clients, budget, origin, options, now, db>>

\* A miss that joins the handler call of a request already in flight for
\* the same key instead of making its own.
Miss_Coalesced(r, method, url) ==
  LET cachedEntry == db[CacheKey(method, url)] IN
  /\ Arrive(r)
  /\ isCacheableRequest(method)
  /\ \/ cachedEntry = Undefined
     \/ /\ cachedEntry # Undefined
        /\ ~isFresh(cachedEntry, maxAge, now)
        /\ ~(/\ staleWhileRevalidate > 0
             /\ isWithinStaleWhileRevalidate(cachedEntry, maxAge,
                                             staleWhileRevalidate, now))
  /\ req' = [req EXCEPT ![r] =
       [NewReq(method, url) EXCEPT !.pc = "handle", !.reads = 1,
          !.handled = IF \E q \in Reqs : /\ req[q].pc = "handle"
                                         /\ cacheKey(q) = CacheKey(method, url)
                      THEN 0 ELSE 1]]
  /\ bg' = [bg EXCEPT ![r] = IdleBg]
  /\ UNCHANGED <<clients, budget, origin, options, now, db>>

\* Lines 69-93: no entry, or one that is neither fresh nor revalidatable;
\* the handler is invoked.
Miss(r, method, url) ==
  LET cachedEntry == db[CacheKey(method, url)] IN
  /\ Arrive(r)
  /\ isCacheableRequest(method)
  /\ \/ cachedEntry = Undefined
     \/ /\ cachedEntry # Undefined
        /\ ~isFresh(cachedEntry, maxAge, now)
        /\ ~(/\ staleWhileRevalidate > 0
             /\ isWithinStaleWhileRevalidate(cachedEntry, maxAge,
                                             staleWhileRevalidate, now))
  /\ req' = [req EXCEPT ![r] =
       [NewReq(method, url) EXCEPT !.pc = "handle", !.reads = 1,
          !.handled = 1]]
  /\ bg' = [bg EXCEPT ![r] = IdleBg]
  /\ UNCHANGED <<clients, budget, origin, options, now, db>>

\* Lines 93-99 and cacheResponse, lines 163-183: the handler resolves.  For
\* a cacheable response the entry is built and db.put is called; any other
\* response is returned at once.
HandleResolve(r, status, headers) ==
  /\ req[r].pc = "handle"
  /\ <<status, headers>> \in origin
  /\ LET response == HandlerResponse(status, headers, req[r].id)
     IN  req' = IF isCacheableResponse(response, cacheableStatusCodes)
                THEN [req EXCEPT ![r].pc = "put", ![r].response = response,
                        ![r].entry = NewEntry(response, now)]
                ELSE [req EXCEPT ![r].pc = "done", ![r].status = "miss",
                        ![r].response = addCacheStatusHeader(response, "miss")]
  /\ UNCHANGED <<clients, budget, origin, options, now, db, issued, bg>>

\* A handler failure that also drops the key's entry from the store.
HandleReject_Evict(r) ==
  /\ req[r].pc = "handle"
  /\ req' = [req EXCEPT ![r].pc = "failed", ![r].error = "handler"]
  /\ db' = [db EXCEPT ![cacheKey(r)] = Undefined]
  /\ UNCHANGED <<clients, budget, origin, options, now, issued, bg>>

\* Line 93: the handler throws or rejects.
HandleReject(r) ==
  /\ req[r].pc = "handle"
  /\ req' = [req EXCEPT ![r].pc = "failed", ![r].error = "handler"]
  /\ UNCHANGED <<clients, budget, origin, options, now, db, issued, bg>>

\* A write that keeps the timestamp of the entry it replaces.
DbPut_Merge(r) ==
  /\ req[r].pc = "put"
  /\ db' = [db EXCEPT ![cacheKey(r)] =
              IF db[cacheKey(r)] = Undefined THEN req[r].entry
              ELSE [req[r].entry EXCEPT
                      !.timestamp = db[cacheKey(r)].timestamp]]
  /\ req' = [req EXCEPT ![r].pc = "done", ![r].status = "miss",
               ![r].writes = @ + 1, ![r].entry = Undefined,
               ![r].response = addCacheStatusHeader(req[r].response, "miss")]
  /\ UNCHANGED <<clients, budget, origin, options, now, issued, bg>>

\* Lines 183 and 99: db.put settles, the entry is in the store and the
\* response is returned.
DbPut(r) ==
  /\ req[r].pc = "put"
  /\ db' = [db EXCEPT ![cacheKey(r)] = req[r].entry]
  /\ req' = [req EXCEPT ![r].pc = "done", ![r].status = "miss",
               ![r].writes = @ + 1, ![r].entry = Undefined,
               ![r].response = addCacheStatusHeader(req[r].response, "miss")]
  /\ UNCHANGED <<clients, budget, origin, options, now, issued, bg>>

\* Line 183: db.put rejects; nothing catches it.
DbPutFault(r) ==
  /\ req[r].pc = "put"
  /\ req' = [req EXCEPT ![r].pc = "failed", ![r].error = "write",
               ![r].entry = Undefined, ![r].response = NoResponse]
  /\ UNCHANGED <<clients, budget, origin, options, now, db, issued, bg>>

(***************************************************************************)
(* updateCacheInBackground (lines 134-149), started by ServeStale.         *)
(***************************************************************************)

\* Lines 142-144: the handler resolves.
BgHandleResolve(r, status, headers) ==
  /\ bg[r].pc = "handle"
  /\ <<status, headers>> \in origin
  /\ LET response == HandlerResponse(status, headers, req[r].id)
     IN  bg' = IF isCacheableResponse(response, cacheableStatusCodes)
               THEN [bg EXCEPT ![r].pc = "put", ![r].response = response,
                       ![r].entry = NewEntry(response, now)]
               ELSE [bg EXCEPT ![r].pc = "done", ![r].response = response]
  /\ UNCHANGED <<clients, budget, origin, options, now, db, issued, req>>

\* A background handler failure that drops the stale entry from the store.
BgHandleReject_Evict(r) ==
  /\ bg[r].pc = "handle"
  /\ bg' = [bg EXCEPT ![r].pc = "done", ![r].error = "handler"]
  /\ db' = [db EXCEPT ![cacheKey(r)] = Undefined]
  /\ UNCHANGED <<clients, budget, origin, options, now, issued, req>>

\* Lines 146-148: the handler throws or rejects; caught and logged.
BgHandleReject(r) ==
  /\ bg[r].pc = "handle"
  /\ bg' = [bg EXCEPT ![r].pc = "done", ![r].error = "handler"]
  /\ UNCHANGED <<clients, budget, origin, options, now, db, issued, req>>

\* A background write that is acknowledged but never reaches the store.
BgDbPut_Lost(r) ==
  /\ bg[r].pc = "put"
  /\ bg' = [bg EXCEPT ![r].pc = "done", ![r].writes = @ + 1,
              ![r].entry = Undefined]
  /\ UNCHANGED <<clients, budget, origin, options, now, db, issued, req>>

\* Line 144: db.put settles.
BgDbPut(r) ==
  /\ bg[r].pc = "put"
  /\ db' = [db EXCEPT ![cacheKey(r)] = bg[r].entry]
  /\ bg' = [bg EXCEPT ![r].pc = "done", ![r].writes = @ + 1,
              ![r].entry = Undefined]
  /\ UNCHANGED <<clients, budget, origin, options, now, issued, req>>

\* A background write failure that is raised into the triggering request.
BgDbPutFault_Raise(r) ==
  /\ bg[r].pc = "put"
  /\ bg' = [bg EXCEPT ![r].pc = "done", ![r].error = "write",
              ![r].entry = Undefined]
  /\ req' = [req EXCEPT ![r].pc = "failed", ![r].error = "write"]
  /\ UNCHANGED <<clients, budget, origin, options, now, db, issued>>

\* Lines 146-148: db.put rejects; caught and logged.
BgDbPutFault(r) ==
  /\ bg[r].pc = "put"
  /\ bg' = [bg EXCEPT ![r].pc = "done", ![r].error = "write",
              ![r].entry = Undefined]
  /\ UNCHANGED <<clients, budget, origin, options, now, db, issued, req>>

(***************************************************************************)
(* The clock.                                                              *)
(***************************************************************************)
Tick ==
  /\ now + TickMs <= (MaxTicks + 1) * TickMs
  /\ now' = now + TickMs
  /\ UNCHANGED <<clients, budget, origin, options, db, issued, req, bg>>

\* The store is persistent: its entries can have been written long before
\* the first request reaches this middleware.  Much time passes at once,
\* before any request.
Lapse ==
  /\ now <= (MaxTicks + 1) * TickMs
  /\ issued = 0
  /\ now' = now + LapseTicks * TickMs
  /\ UNCHANGED <<clients, budget, origin, options, db, issued, req, bg>>

Next ==
  \/ \E r \in Reqs, method \in Methods, url \in Urls : Bypass(r, method, url)
  \/ \E r \in Reqs, response \in AllResponses :
       BypassResolve(r, response[1], response[2])
  \/ \E r \in Reqs : BypassReject(r)
  \/ \E r \in Reqs, method \in Methods, url \in Urls :
       GetCachedResponseFault(r, method, url)
  \/ \E r \in Reqs, method \in Methods, url \in Urls : ServeHit(r, method, url)
  \/ \E r \in Reqs, method \in Methods, url \in Urls :
       ServeStale(r, method, url)
  \/ \E r \in Reqs, method \in Methods, url \in Urls : Miss(r, method, url)
  \/ \E r \in Reqs, response \in AllResponses :
       HandleResolve(r, response[1], response[2])
  \/ \E r \in Reqs : HandleReject(r)
  \/ \E r \in Reqs : DbPut(r)
  \/ \E r \in Reqs : DbPutFault(r)
  \/ \E r \in Reqs, response \in AllResponses :
       BgHandleResolve(r, response[1], response[2])
  \/ \E r \in Reqs : BgHandleReject(r)
  \/ \E r \in Reqs : BgDbPut(r)
  \/ \E r \in Reqs : BgDbPutFault(r)
  \/ Tick
  \/ Lapse

Spec == Init /\ [][Next]_vars

SpecSeq == InitSeq /\ [][Next]_vars

(***************************************************************************)
(* Vocabulary of the properties.                                           *)
(***************************************************************************)
HitValue    == "\"http-cache-middleware\"; hit"
NonHitValue == "\"http-cache-middleware\"; hit=0"

\* In this step a GET or HEAD request arrives in slot r and reads the store.
Reads(r) ==
  /\ issued' = issued + 1
  /\ req'[r].id = issued'
  /\ req'[r].method \in {"GET", "HEAD"}
  /\ req'[r].error # "read"

\* The entry that request finds under its key.
Found(r) == db[CacheKey(req'[r].method, req'[r].url)]

HasLabel(response, value) ==
  /\ "cache-status" \in DOMAIN response.headers
  /\ response.headers["cache-status"] = value

\* The response carries the stored body, status, status text and headers.
Carries(response, stored) ==
  /\ response.body = stored.body
  /\ response.status = stored.status
  /\ response.statusText = stored.statusText
  /\ \A h \in DOMAIN stored.headers :
       h \in DOMAIN response.headers /\ response.headers[h] = stored.headers[h]

\* The status code is one of the configured cacheable ones.
CacheableStatus(status) ==
  \E i \in DOMAIN cacheableStatusCodes : cacheableStatusCodes[i] = status

\* The stale window of the configuration, in milliseconds.
InStaleWindow(entry, t) ==
  t - entry.timestamp < (maxAge + staleWhileRevalidate) * 1000

\* What the middleware classifies as EXPIRED.
Expired(entry, t) ==
  /\ ~isFresh(entry, maxAge, t)
  /\ ~(staleWhileRevalidate > 0 /\ InStaleWindow(entry, t))

\* C1: a GET or HEAD request whose key holds an entry classified fresh is
\* answered with the stored body, headers and status labelled as a hit; the
\* handler is not invoked for it and it does not write the store.
C1_FreshHit ==
  [][\A r \in Reqs :
       /\ (/\ Reads(r)
           /\ Found(r) # Undefined
           /\ isFresh(Found(r), maxAge, now))
          => /\ req'[r].pc = "done"
             /\ req'[r].status = "hit"
             /\ Carries(req'[r].response, Found(r).response)
             /\ HasLabel(req'[r].response, HitValue)
             /\ db' = db
             /\ bg'[r].pc = "none"
       /\ req'[r].status = "hit"
          => /\ req'[r].method \in {"GET", "HEAD"}
             /\ req'[r].pc = "done"
             /\ req'[r].handled = 0
             /\ req'[r].writes = 0
             /\ bg'[r].handled = 0]_vars

C1_Witness ==
  \E r \in Reqs :
    /\ req[r].pc = "done"
    /\ req[r].status = "hit"
    /\ req[r].response.body = db[cacheKey(r)].response.body

\* C2: a GET or HEAD request that finds no entry, or an expired one, invokes
\* the handler exactly once; a response with a cacheable status is in the
\* store under the request's key when it is returned; the returned response
\* is labelled as a miss.
C2_MissRefresh ==
  [][\A r \in Reqs :
       /\ (/\ Reads(r)
           /\ \/ Found(r) = Undefined
              \/ Expired(Found(r), now))
          => /\ req'[r].pc = "handle"
             /\ req'[r].handled = 1
             /\ bg'[r].pc = "none"
             /\ db' = db
       /\ req'[r].pc \in {"handle", "put"}
          => req'[r].handled = 1 /\ bg'[r].handled = 0
       /\ (req'[r].pc = "done" /\ req'[r].status = "miss")
          => /\ req'[r].handled = 1
             /\ bg'[r].handled = 0
             /\ HasLabel(req'[r].response, NonHitValue)
             /\ req'[r].writes =
                  (IF CacheableStatus(req'[r].response.status) THEN 1 ELSE 0)
       /\ (req[r].pc # "done" /\ req'[r].pc = "done" /\ req'[r].status = "miss"
             /\ CacheableStatus(req'[r].response.status))
          => /\ db'[cacheKey(r)] # Undefined
             /\ Carries(req'[r].response, db'[cacheKey(r)].response)
             /\ \A k \in Keys : k # cacheKey(r) => db'[k] = db[k]]_vars

C2_Witness ==
  \E r \in Reqs :
    /\ req[r].pc = "done"
    /\ req[r].status = "miss"
    /\ req[r].writes = 1
    /\ db[cacheKey(r)] # Undefined
    /\ db[cacheKey(r)].response.body = req[r].response.body

\* C3: a request that finds a stale entry inside the revalidation window
\* (staleWhileRevalidate > 0) is answered with the stored body labelled
\* stale; it invokes the handler exactly once, in the background; once that
\* background write has completed the store holds the refreshed content, and
\* a later request for the same key reads, and is served, content from the
\* store that is not the content that was served stale.
C3_StaleRevalidate ==
  [][\A r \in Reqs :
       /\ (/\ Reads(r)
           /\ Found(r) # Undefined
           /\ ~isFresh(Found(r), maxAge, now)
           /\ staleWhileRevalidate > 0
           /\ InStaleWindow(Found(r), now))
          => /\ req'[r].pc = "done"
             /\ req'[r].status = "stale"
             /\ Carries(req'[r].response, Found(r).response)
             /\ HasLabel(req'[r].response, NonHitValue)
             /\ bg'[r].pc = "handle"
             /\ db' = db
       /\ req'[r].status = "stale"
          => /\ req'[r].handled = 0
             /\ bg'[r].handled = 1
       /\ (bg[r].pc = "put" /\ bg'[r].writes = 1)
          => /\ db'[cacheKey(r)] # Undefined
             /\ db'[cacheKey(r)].response.body = bg[r].response.body
             /\ db'[cacheKey(r)].response.body # req[r].response.body
       /\ (req[r].status = "stale" /\ bg[r].writes = 1)
          => \A q \in Reqs :
               (Reads(q) /\ CacheKey(req'[q].method, req'[q].url) = cacheKey(r))
               => /\ Found(q) # Undefined
                  /\ Found(q).response.body # req[r].response.body
                  /\ req'[q].pc = "done"
                     => req'[q].response.body = Found(q).response.body]_vars

\* A request was served stale, its background write has completed, and the
\* next request for the key has been served the refreshed content.
C3_Witness ==
  \E r, q \in Reqs :
    /\ r # q
    /\ req[r].status = "stale"
    /\ bg[r].writes = 1
    /\ req[q].pc = "done"
    /\ req[q].status = "hit"
    /\ cacheKey(q) = cacheKey(r)
    /\ req[q].response.body = bg[r].response.body

\* Freshness as specified: an entry whose expires is set is fresh exactly
\* while now < expires; one without expires while its age is below maxAge.
FreshAsSpecified(entry, t) ==
  IF entry.expires # Null
  THEN entry.expires.t = "number" /\ t < entry.expires.v
  ELSE t - entry.timestamp < maxAge * 1000

\* C4: every stored entry is classified fresh, at every time, iff its
\* expires is set and now < expires (whatever its timestamp and the
\* configured maxAge), or its expires is not set and
\* now - timestamp < maxAge * 1000.
C4_FreshIffSpecified ==
  \A k \in Keys :
    db[k] # Undefined
      => (isFresh(db[k], maxAge, now) <=> FreshAsSpecified(db[k], now))

\* C5: with staleWhileRevalidate > 0, a request that finds an entry that is
\* not classified fresh is served from the cache, with a background
\* refresh, iff now - timestamp < (maxAge + staleWhileRevalidate) * 1000;
\* otherwise it refreshes synchronously and is labelled a miss.
C5_StaleIffInWindow ==
  [][\A r \in Reqs :
       /\ (/\ Reads(r)
           /\ Found(r) # Undefined
           /\ ~isFresh(Found(r), maxAge, now)
           /\ staleWhileRevalidate > 0)
          => IF now - Found(r).timestamp
                  < (maxAge + staleWhileRevalidate) * 1000
             THEN /\ req'[r].pc = "done"
                  /\ req'[r].status = "stale"
                  /\ Carries(req'[r].response, Found(r).response)
                  /\ req'[r].handled = 0
                  /\ bg'[r].pc = "handle"
             ELSE /\ req'[r].pc = "handle"
                  /\ req'[r].handled = 1
                  /\ bg'[r].pc = "none"
       /\ (req'[r].pc = "done" /\ req'[r].handled = 1
             /\ req'[r].method \in {"GET", "HEAD"})
          => /\ req'[r].status = "miss"
             /\ HasLabel(req'[r].response, NonHitValue)]_vars

\* An entry past its stale window was found and is being refreshed
\* synchronously.
C5_Witness ==
  \E r \in Reqs :
    /\ req[r].pc = "handle"
    /\ staleWhileRevalidate > 0
    /\ db[cacheKey(r)] # Undefined
    /\ ~isFresh(db[cacheKey(r)], maxAge, now)
    /\ now - db[cacheKey(r)].timestamp
         = (maxAge + staleWhileRevalidate) * 1000

\* C6: every entry in the store comes from a handler response whose status
\* is cacheable; a response with any other status, on the synchronous or
\* the background path, causes no store write, so the next request for a
\* key that was empty is again a miss.
C6_OnlyCacheableStored ==
  [][/\ \A k \in Keys :
          /\ db'[k] # Undefined => CacheableStatus(db'[k].response.status)
          /\ db'[k] # db[k]
             => \E r \in Reqs :
                  /\ cacheKey(r) = k
                  /\ \/ req[r].pc = "put" /\ db'[k] = req[r].entry
                     \/ bg[r].pc = "put" /\ db'[k] = bg[r].entry
                  /\ db'[k].response.body = req[r].id
     /\ \A r \in Reqs :
          /\ req'[r].pc = "put"
             => CacheableStatus(req'[r].response.status)
          /\ bg'[r].pc = "put"
             => CacheableStatus(bg'[r].response.status)
          /\ (req[r].pc = "handle" /\ req'[r].pc = "done"
                /\ ~CacheableStatus(req'[r].response.status))
             => db' = db /\ req'[r].writes = 0
          /\ (bg[r].pc = "handle" /\ bg'[r].pc = "done"
                /\ ~CacheableStatus(bg'[r].response.status))
             => db' = db /\ bg'[r].writes = 0
          /\ (/\ req[r].pc = "done"
              /\ req[r].status = "miss"
              /\ ~CacheableStatus(req[r].response.status)
              /\ db[cacheKey(r)] = Undefined)
             => \A q \in Reqs :
                  (Reads(q)
                     /\ CacheKey(req'[q].method, req'[q].url) = cacheKey(r))
                  => req'[q].pc = "handle" /\ req'[q].handled = 1]_vars

\* A non-cacheable response left the key empty and the next request for the
\* key is a miss again.
C6_Witness ==
  \E r, q \in Reqs :
    /\ r # q
    /\ req[r].pc = "done"
    /\ req[r].status = "miss"
    /\ ~CacheableStatus(req[r].response.status)
    /\ req[r].writes = 0
    /\ cacheKey(q) = cacheKey(r)
    /\ req[q].id > req[r].id
    /\ req[q].pc = "handle"
    /\ db[cacheKey(r)] = Undefined

\* C7: a request whose method is not GET or HEAD invokes the handler exactly
\* once, neither reads nor writes the store, and gets the handler's response
\* as it is, with no cache-status header.
C7_Bypass ==
  [][\A r \in Reqs :
       /\ (/\ issued' = issued + 1
           /\ req'[r].id = issued'
           /\ req'[r].method \notin {"GET", "HEAD"})
          => /\ req'[r].pc = "bypass"
             /\ db' = db
       /\ (req'[r].pc # "idle" /\ req'[r].method \notin {"GET", "HEAD"})
          => /\ req'[r].handled = 1
             /\ req'[r].reads = 0
             /\ req'[r].writes = 0
             /\ req'[r].entry = Undefined
             /\ bg'[r].pc = "none"
             /\ req'[r] # req[r] => db' = db
             /\ req'[r].pc = "done"
                => /\ "cache-status" \notin DOMAIN req'[r].response.headers
                   /\ \E response \in origin :
                        req'[r].response =
                          HandlerResponse(response[1], response[2], req'[r].id)
             /\ req'[r].pc = "failed" => req'[r].error = "handler"]_vars

C7_Witness ==
  \E r \in Reqs :
    /\ req[r].method = "POST"
    /\ req[r].pc = "done"
    /\ req[r].handled = 1
    /\ req[r].reads = 0

\* C8: every response returned for a GET or HEAD request carries a
\* cache-status header; the values for hit, miss and stale are pairwise
\* different, and the hit flag is true only on a hit.
C8_LabelsDistinguish ==
  \A r, q \in Reqs :
    (/\ req[r].pc = "done" /\ req[r].status \in {"hit", "miss", "stale"}
     /\ req[q].pc = "done" /\ req[q].status \in {"hit", "miss", "stale"})
    => /\ "cache-status" \in DOMAIN req[r].response.headers
       /\ req[r].response.headers["cache-status"] = HitValue
          => req[r].status = "hit"
       /\ req[r].status # req[q].status
          => req[r].response.headers["cache-status"]
               # req[q].response.headers["cache-status"]

\* C9: a store write that fails during a synchronous refresh does not fail
\* the request: the handler's response is still returned.
C9_WriteFaultNotSurfaced ==
  \A r \in Reqs : ~(req[r].pc = "failed" /\ req[r].error = "write")

\* C10: a stored entry that cannot be read or decoded is handled as a cache
\* miss: the handler is invoked and the failure does not reach the caller.
C10_ReadFaultIsMiss ==
  \A r \in Reqs :
    req[r].reads = 1 => ~(req[r].pc = "failed" /\ req[r].error = "read")

\* The put of slot q settles in this step: a synchronous or a background
\* write of q's pending entry is counted.
Settles(q) ==
  \/ req[q].pc = "put" /\ req'[q].writes = req[q].writes + 1
  \/ bg[q].pc = "put" /\ bg'[q].writes = bg[q].writes + 1

\* C11: when the handler fails on the synchronous path (the request found
\* no entry or an expired one), the request fails with the handler's
\* failure and returns no response; the request attempts no store write,
\* and the store, any existing entry for the key included, is as it was:
\* while the request is in the handler the store changes only by the writes
\* of other requests.
C11_HandlerFaultPropagates ==
  [][\A r \in Reqs :
       /\ (req[r].pc = "handle" /\ req'[r].pc # "handle")
          => \/ req'[r].pc = "failed" /\ req'[r].error = "handler"
             \/ req'[r].pc \in {"put", "done"} /\ req'[r].error = ""
       /\ (req[r].pc = "handle" /\ req'[r].pc = "failed")
          => /\ req'[r].error = "handler"
             /\ req'[r].response = NoResponse
             /\ req'[r].writes = 0
             /\ req'[r].entry = Undefined
             /\ bg'[r].pc = "none"
             /\ db' = db
       /\ (req[r].pc = "handle" /\ db' # db)
          => \E q \in Reqs : q # r /\ Settles(q)]_vars

\* A request found an expired entry, its handler failed, and the entry is
\* still the one in the store.
C11_Witness ==
  \E r \in Reqs :
    /\ req[r].pc = "failed"
    /\ req[r].error = "handler"
    /\ req[r].method \in {"GET", "HEAD"}
    /\ req[r].handled = 1
    /\ db[cacheKey(r)] # Undefined
    /\ db[cacheKey(r)].response.body = 0
    /\ Expired(db[cacheKey(r)], now)

\* C12: a failure of the background refresh, of its handler or of its store
\* write, ends the refresh and nothing else: in that step no request
\* changes (none fails, and the response already returned as stale stays as
\* it was) and the store does not change; a refresh that has ended is not
\* started again, so the handler is invoked at most once per refresh.
C12_BackgroundFaultContained ==
  [][\A r \in Reqs :
       /\ (bg[r].pc \in {"handle", "put"} /\ bg'[r].error # "")
          => /\ bg'[r].pc = "done"
             /\ bg'[r].handled = 1
             /\ bg'[r].writes = 0
             /\ req' = req
             /\ db' = db
       /\ (req[r].status = "stale" /\ req'[r].id = req[r].id)
          => req'[r] = req[r]
       /\ (bg[r].pc = "done" /\ req'[r].id = req[r].id)
          => bg'[r] = bg[r]
       /\ bg'[r].handled <= 1
       /\ req'[r].pc = "failed" => bg'[r].pc = "none"]_vars

\* Two requests were served stale; the refresh of one failed in the handler
\* and the refresh of the other in the store write; both requests have
\* their stale response.
C12_Witness ==
  \E r, q \in Reqs :
    /\ r # q
    /\ req[r].pc = "done" /\ req[r].status = "stale"
    /\ req[q].pc = "done" /\ req[q].status = "stale"
    /\ HasLabel(req[r].response, NonHitValue)
    /\ HasLabel(req[q].response, NonHitValue)
    /\ bg[r].pc = "done" /\ bg[r].error = "handler"
    /\ bg[q].pc = "done" /\ bg[q].error = "write"

MaxAgeDirectives(headers) ==
  IF "cache-control" \in DOMAIN headers
  THEN {i \in DOMAIN headers["cache-control"] :
          /\ headers["cache-control"][i].name = "max-age"
          /\ Len(headers["cache-control"][i].digits) > 0}
  ELSE {}

\* The expires specified for an entry with these headers and this write
\* time.
ExpiresAsSpecified(headers, timestamp) ==
  IF MaxAgeDirectives(headers) # {}
  THEN LET i == CHOOSE i \in MaxAgeDirectives(headers) :
                  \A j \in MaxAgeDirectives(headers) : i <= j
       IN  Num(timestamp
                 + parseInt(headers["cache-control"][i].digits) * 1000)
  ELSE IF "expires" \in DOMAIN headers
       THEN DateGetTime(headers["expires"])
       ELSE Null

\* C14: every entry built from an origin response, and every entry that a
\* write puts in the store, has expires = write time + max-age * 1000 when
\* the response's Cache-Control has a max-age=<digits> directive, whatever
\* the configured maxAge and whether or not there is an Expires header;
\* without such a directive expires is the time of the Expires header when
\* there is one, and is unset otherwise.
C14_ExpiresFromHeaders ==
  [][/\ \A r \in Reqs :
          /\ req'[r].pc = "put"
             => /\ req'[r].entry.response.headers = req'[r].response.headers
                /\ req'[r].entry.expires =
                     ExpiresAsSpecified(req'[r].response.headers,
                                        req'[r].entry.timestamp)
          /\ bg'[r].pc = "put"
             => /\ bg'[r].entry.response.headers = bg'[r].response.headers
                /\ bg'[r].entry.expires =
                     ExpiresAsSpecified(bg'[r].response.headers,
                                        bg'[r].entry.timestamp)
          /\ (req[r].pc = "handle" /\ req'[r].pc = "put")
             => req'[r].entry.timestamp = now
          /\ (bg[r].pc = "handle" /\ bg'[r].pc = "put")
             => bg'[r].entry.timestamp = now
     /\ \A k \in Keys :
          db'[k] # db[k]
          => db'[k].expires =
               ExpiresAsSpecified(db'[k].response.headers, db'[k].timestamp)
    ]_vars

\* An entry written in this behaviour from a response with both max-age=1
\* and an Expires header, under a configured maxAge other than 1: its
\* expires is its timestamp + 1000 and not the time of the Expires header.
C14_Witness ==
  \E k \in Keys :
    /\ db[k] # Undefined
    /\ db[k].response.body # 0
    /\ "expires" \in DOMAIN db[k].response.headers
    /\ MaxAgeDirectives(db[k].response.headers) # {}
    /\ maxAge # 1
    /\ db[k].expires = Num(db[k].timestamp + 1000)
    /\ db[k].expires # DateGetTime(db[k].response.headers["expires"])

\* C15: under staleWhileRevalidate = 0 no request is answered as stale and
\* no background refresh exists; a request that finds an entry that is not
\* fresh invokes the handler itself, and what it returns is labelled miss.
C15_ZeroDisablesBackground ==
  [][staleWhileRevalidate = 0
     => \A r \in Reqs :
          /\ req'[r].status # "stale"
          /\ bg'[r].pc = "none"
          /\ bg'[r].handled = 0
          /\ (/\ Reads(r)
              /\ Found(r) # Undefined
              /\ ~isFresh(Found(r), maxAge, now))
             => /\ req'[r].pc = "handle"
                /\ req'[r].handled = 1
                /\ db' = db
          /\ (/\ req'[r].pc = "done"
              /\ req'[r].method \in {"GET", "HEAD"}
              /\ req'[r].status # "hit")
             => /\ req'[r].status = "miss"
                /\ req'[r].handled = 1
                /\ HasLabel(req'[r].response, NonHitValue)]_vars

\* Under staleWhileRevalidate = 0 a request found an entry that is not
\* fresh although younger than maxAge, refreshed synchronously and was
\* answered as a miss (the handler's answer was not cacheable, so the entry
\* it found is still in the store).
C15_Witness ==
  \E r \in Reqs :
    /\ staleWhileRevalidate = 0
    /\ req[r].pc = "done"
    /\ req[r].status = "miss"
    /\ req[r].handled = 1
    /\ req[r].writes = 0
    /\ db[cacheKey(r)] # Undefined
    /\ ~isFresh(db[cacheKey(r)], maxAge, now)
    /\ now - db[cacheKey(r)].timestamp < maxAge * 1000

\* The default of staleWhileRevalidate as documented, in seconds.
DocumentedStaleWhileRevalidate == 60

\* C16: when the staleWhileRevalidate option is not given, a request that
\* finds an entry without expires that is no longer fresh is served stale
\* iff now - timestamp < (maxAge + 60) * 1000.
C16_DefaultWindowIs60 ==
  [][\A r \in Reqs :
       (/\ "staleWhileRevalidate" \notin DOMAIN options
        /\ Reads(r)
        /\ Found(r) # Undefined
        /\ Found(r).expires = Null
        /\ ~isFresh(Found(r), maxAge, now))
       => (req'[r].status = "stale"
             <=> now - Found(r).timestamp
                   < (maxAge + DocumentedStaleWhileRevalidate) * 1000)]_vars

\* Handler invocations made for the request in slot r, by the request
\* itself or by its background refresh.
Invocations(rq, b) == rq.handled + b.handled

\* C17: a request that reads the store and is not a hit invokes the handler
\* exactly once, in the step in which it arrives, whatever the other
\* requests in flight are doing: its own call or its own background
\* refresh starts, and the requests and refreshes of the other slots are
\* left as they are.  The count of a request never changes afterwards, and
\* each refresh writes the store at most once.
C17_NoSingleFlight ==
  [][\A r \in Reqs :
       /\ (Reads(r) /\ ~(Found(r) # Undefined /\ isFresh(Found(r), maxAge, now)))
          => /\ Invocations(req'[r], bg'[r]) = 1
             /\ req'[r].pc = "handle" \/ bg'[r].pc = "handle"
             /\ \A q \in Reqs \ {r} : req'[q] = req[q] /\ bg'[q] = bg[q]
       /\ req'[r].id = req[r].id
          => Invocations(req'[r], bg'[r]) = Invocations(req[r], bg[r])
       /\ (req'[r].pc \notin {"idle", "failed"} /\ req'[r].status # "hit")
          => Invocations(req'[r], bg'[r]) = 1
       /\ req'[r].writes + bg'[r].writes <= 1]_vars

\* Two requests read the same stale entry; each launched its own background
\* refresh, each refresh invoked the handler and each wrote the key.
C17_Witness ==
  \E r, q \in Reqs :
    /\ r # q
    /\ cacheKey(r) = cacheKey(q)
    /\ req[r].status = "stale" /\ req[q].status = "stale"
    /\ req[r].response.body = req[q].response.body
    /\ bg[r].handled = 1 /\ bg[q].handled = 1
    /\ bg[r].writes = 1 /\ bg[q].writes = 1
    /\ bg[r].response.body # bg[q].response.body

\* The entry that slot r has handed to db.put and that is not yet settled.
Pending(r) ==
  IF req[r].pc = "put" THEN req[r].entry ELSE bg[r].entry

\* C18: a write that completes leaves under its key exactly the entry it
\* was given, all fields together, whatever the store held and whichever
\* request arrived or called the handler first; the store changes in no
\* other way, so the entry left once all refreshes of a key have finished
\* is the whole entry of the write that completed last.
C18_LastWriteWins ==
  [][/\ \A r \in Reqs :
          Settles(r)
          => /\ db'[cacheKey(r)] = Pending(r)
             /\ db'[cacheKey(r)].response.body = req[r].id
             /\ \A k \in Keys \ {cacheKey(r)} : db'[k] = db[k]
             /\ \A q \in Reqs \ {r} : ~Settles(q)
     /\ \A k \in Keys :
          db'[k] # db[k]
          => \E r \in Reqs :
               /\ cacheKey(r) = k
               /\ Settles(r)
               /\ db'[k] = Pending(r)]_vars

\* Two refreshes of one key have both completed their write; the store
\* holds the entry of the request that arrived first, whose write completed
\* last and whose entry is not the newer of the two.
C18_Witness ==
  \E r, q \in Reqs :
    /\ r # q
    /\ cacheKey(r) = cacheKey(q)
    /\ req[r].id < req[q].id
    /\ req[r].writes + bg[r].writes = 1
    /\ req[q].writes + bg[q].writes = 1
    /\ Free(r) /\ Free(q)
    /\ db[cacheKey(r)].response.body = req[r].id
    /\ db[cacheKey(r)].timestamp < now

\* C19: with staleWhileRevalidate > 0, a request that finds an entry whose
\* expires was set from the response headers, at a time now >= expires, is
\* served stale iff now - timestamp < (maxAge + staleWhileRevalidate) * 1000
\* with the configured maxAge.
C19_MixedBasisWindow ==
  [][\A r \in Reqs :
       (/\ Reads(r)
        /\ Found(r) # Undefined
        /\ Found(r).expires.t = "number"
        /\ now >= Found(r).expires.v
        /\ staleWhileRevalidate > 0)
       => (req'[r].status = "stale" <=> InStaleWindow(Found(r), now))]_vars

\* C20: a key that holds an entry holds one in every later state; a
\* refresh, synchronous or in the background, whose handler fails or
\* answers with a status that is not cacheable leaves the store unchanged;
\* hence after a refresh that wrote nothing, a request that finds the same
\* entry under the key is served it as stale and launches a refresh of its
\* own while the entry is in its stale window, and refreshes synchronously
\* once the window has ended.
C20_NeverDeleted ==
  [][/\ \A k \in Keys : db[k] # Undefined => db'[k] # Undefined
     /\ \A r \in Reqs :
          /\ (req[r].pc = "handle" /\ req'[r].pc \in {"failed", "done"})
             => db' = db
          /\ (bg[r].pc = "handle" /\ bg'[r].pc = "done")
             => db' = db /\ bg'[r].writes = 0
          /\ (/\ req[r].status = "stale"
              /\ bg[r].pc = "done"
              /\ bg[r].writes = 0)
             => \A q \in Reqs :
                  (/\ Reads(q)
                   /\ CacheKey(req'[q].method, req'[q].url) = cacheKey(r)
                   /\ Found(q) # Undefined
                   /\ Found(q).response.body = req[r].response.body
                   /\ ~isFresh(Found(q), maxAge, now)
                   /\ staleWhileRevalidate > 0)
                  => IF InStaleWindow(Found(q), now)
                     THEN /\ req'[q].status = "stale"
                          /\ Carries(req'[q].response, Found(q).response)
                          /\ bg'[q].pc = "handle"
                          /\ bg'[q].handled = 1
                     ELSE /\ req'[q].pc = "handle"
                          /\ bg'[q].pc = "none"]_vars

\* A request was served stale and its refresh failed in the handler; the
\* next request for the key was served the same entry as stale and has
\* launched a refresh of its own.
C20_Witness ==
  \E r, q \in Reqs :
    /\ r # q
    /\ cacheKey(r) = cacheKey(q)
    /\ req[r].id < req[q].id
    /\ req[r].status = "stale"
    /\ bg[r].pc = "done" /\ bg[r].error = "handler" /\ bg[r].writes = 0
    /\ req[q].status = "stale"
    /\ req[q].response.body = req[r].response.body
    /\ db[cacheKey(r)] # Undefined
    /\ db[cacheKey(r)].response.body = req[r].response.body
    /\ bg[q].pc = "handle"

=============================================================================
